---- MODULE Spec2Model ----
(***************************************************************************)
(* Model of thermalright_lcd_control's frame encoding and packet streaming *)
(* pipeline (device_controller/display/display_device.py): the pixel       *)
(* encoder, the packetizer, the header builders of the five device         *)
(* classes, the hot-reloading frame source and the streaming loop.         *)
(*                                                                         *)
(* Bytes are integers 0..255 and a bytes object is a sequence of them.     *)
(* An image is a record [size |-> <<width, height>>, px |-> f] where       *)
(* f[<<x, y>>] is the (r, g, b) triple PIL's getpixel((x, y)) returns.     *)
(***************************************************************************)
EXTENDS Integers, Sequences, FiniteSets, TLC

VARIABLES
    pc,             \* position of the modelled control flow
    cls,            \* class of the session object ("none" outside a session)
    chunk_size,     \* self.chunk_size
    width,          \* self.width
    height,         \* self.height
    header,         \* self.header (DisplayDevice only)
    last_modified,  \* self.last_modified
    generator,      \* self._generator: None or a generator instance
    mtime,          \* st_mtime_ns of the configuration file on disk
    builds,         \* number of _build_generator calls made so far
    built_from,     \* mtime of the file when the last build loaded it
    pull,           \* bookkeeping of the _get_generator call in progress
    img,            \* run(): img
    frame_header,   \* run(): header / get_header() of the current frame
    img_bytes,      \* run(): img_bytes
    frame_packets,  \* run(): frame_packets
    pkt_idx,        \* run(): position of the for loop over frame_packets
    written,        \* the last packet handed to the transport write
    frames,         \* number of frames whose sleep has finished
    encoded,        \* result of _encode_image (encoder harness)
    fversion,       \* content of the configuration file on disk, by number
    replaced,       \* the file was once replaced without a later timestamp
    fail,           \* the exception that ended the session, if any
    init_sent,      \* the blobs send_init_sequence has written
    usb_present,    \* usb.core.find finds the panel
    kernel_driver,  \* the kernel driver of the interface: bound, detached, none
    claimed,        \* the interface is claimed
    hid_devices,    \* what hid.enumerate() lists (harness of load_device)
    gen_frames,     \* the frames a generator hands out (harness of the loops)
    run_ops,        \* the writes and sleeps of USBDisplayDevice.run
    debug_ops,      \* the writes and sleeps of main's verbose_run
    hid_source,     \* frame source of a DisplayDevice (harness of the sources)
    usb_source,     \* frame source of a USBDisplayDevice, same events
    file_stat,      \* st_mtime_ns of the configuration file of the two
    events,         \* the events the two frame sources have been driven by
    win_data,       \* WinUsbDevice.run: data of the file being streamed
    win_packet_size,\* self.ep_out.wMaxPacketSize
    win_vendor_ok,  \* the vendor-class control transfer is accepted
    win_header,     \* the control transfer that carried the header
    win_packets,    \* the packets send_frame has written
    urb_len,        \* theme_color_v41.send: len(data)
    urb_count,      \* sent_urb_count
    urb_event,      \* transfer_complete_event is set
    urb_i,          \* send: position of the for loop over chunks
    urb_state,      \* per chunk: its URB and the callback of that URB
    urb_tmp,        \* per callback: the sent_urb_count it has loaded
    urb_main_tmp    \* the sent_urb_count the except clause has loaded

vars == <<pc, cls, chunk_size, width, height, header, last_modified, generator,
          mtime, builds, built_from, pull, img, frame_header, img_bytes,
          frame_packets, pkt_idx, written, frames, encoded, fversion,
          replaced, fail, init_sent, usb_present, kernel_driver, claimed,
          hid_devices, gen_frames, run_ops, debug_ops, hid_source,
          usb_source, file_stat, events, win_data, win_packet_size,
          win_vendor_ok, win_header, win_packets, urb_len, urb_count,
          urb_event, urb_i, urb_state, urb_tmp, urb_main_tmp>>

\* the variables of the session and of its harnesses, pc excepted
sessionVars == <<cls, chunk_size, width, height, header, last_modified,
                 generator, mtime, builds, built_from, pull, img,
                 frame_header, img_bytes, frame_packets, pkt_idx, written,
                 frames, encoded, fversion, replaced, fail, init_sent,
                 usb_present, kernel_driver, claimed, hid_devices>>

\* the variables of the harnesses of the other programs
loopVars == <<gen_frames, run_ops, debug_ops>>
sourceVars == <<hid_source, usb_source, file_stat, events>>
winVars == <<win_data, win_packet_size, win_vendor_ok, win_header,
             win_packets>>
urbVars == <<urb_len, urb_count, urb_event, urb_i, urb_state, urb_tmp,
             urb_main_tmp>>
harnessVars == <<loopVars, sourceVars, winVars, urbVars>>

LoopsIdle ==
    /\ gen_frames = <<>> /\ run_ops = <<>> /\ debug_ops = <<>>

SourcesIdle ==
    /\ hid_source = <<>> /\ usb_source = <<>> /\ file_stat = 0
    /\ events = <<>>

NoTransfer == [via |-> "none", bRequest |-> 0, wValue |-> 0, data |-> <<>>]

WinIdle ==
    /\ win_data = <<>> /\ win_packet_size = 0 /\ win_vendor_ok = FALSE
    /\ win_header = NoTransfer /\ win_packets = <<>>

UrbIdle ==
    /\ urb_len = 0 /\ urb_count = 0 /\ urb_event = FALSE /\ urb_i = 0
    /\ urb_state = <<>> /\ urb_tmp = <<>> /\ urb_main_tmp = 0

HarnessIdle ==
    /\ LoopsIdle
    /\ SourcesIdle
    /\ WinIdle
    /\ UrbIdle

(***************************************************************************)
(* Bounds of the model.                                                    *)
(***************************************************************************)
MaxLen == 4         \* longest payload given to the packetizer harness
MaxChunk == 3       \* largest chunk size given to the packetizer harness
MaxW == 2           \* widest image given to the encoder harness
MaxH == 3           \* tallest image given to the encoder harness
MaxMtime == 2       \* number of times the configuration file is modified
MaxFrames == 2      \* number of frames a session streams
MaxHid == 2         \* longest list hid.enumerate() returns
MaxEvents == 6      \* events two frame sources are driven by
MaxData == 4        \* longest data given to theme_color_v41.send

\* self._generator = None: no instance (instances are numbered from 1)
None == [id |-> 0, config |-> 0, config_mtime |-> 0, output_width |-> 0,
         output_height |-> 0, file_width |-> 0, file_height |-> 0,
         origin |-> "none"]
NoImage == [size |-> <<0, 0>>, px |-> <<>>]
NoPacket == [frame |-> 0, idx |-> 0, of |-> 0, payload_len |-> 0, data |-> <<>>]
NoPull == [n |-> 0, advanced |-> FALSE, builds0 |-> 0, mtime0 |-> 0,
           version0 |-> 0, gen0 |-> None, last0 |-> 0, prev |-> None,
           done |-> FALSE]
NoFail == [kind |-> "none", last |-> NoPacket, frames |-> 0, pulls |-> 0,
           img |-> NoImage, idx |-> 0, inits |-> <<>>]

Min(a, b) == IF a < b THEN a ELSE b

(***************************************************************************)
(* Python and struct helpers.                                              *)
(***************************************************************************)
RECURSIVE BitAnd(_, _)
BitAnd(a, b) ==
    IF a = 0 \/ b = 0 THEN 0
    ELSE (a % 2) * (b % 2) + 2 * BitAnd(a \div 2, b \div 2)

RECURSIVE BitOr(_, _)
BitOr(a, b) ==
    IF a = 0 THEN b
    ELSE IF b = 0 THEN a
    ELSE (IF a % 2 = 1 \/ b % 2 = 1 THEN 1 ELSE 0) + 2 * BitOr(a \div 2, b \div 2)

Shl(a, n) == a * 2^n
Shr(a, n) == a \div 2^n

\* b"\x00" * n
Zeros(n) == [k \in 1..n |-> 0]

\* s[a:b] for 0 <= a <= b
Slice(s, a, b) == SubSeq(s, a + 1, Min(b, Len(s)))

\* list(range(start, stop, step)) for step > 0
RECURSIVE Range(_, _, _)
Range(start, stop, step) ==
    IF start >= stop THEN <<>>
    ELSE <<start>> \o Range(start + step, stop, step)

\* struct.pack fields, little-endian
PackB(v) == <<v % 256>>
PackH(v) == <<v % 256, (v \div 256) % 256>>
PackI(v) == <<v % 256, (v \div 256) % 256, (v \div 65536) % 256,
              (v \div 16777216) % 256>>

(***************************************************************************)
(* Pixel encoder: DisplayDevice._encode_image and the identical            *)
(* USBDisplayDevice._encode_image.                                         *)
(***************************************************************************)
getpixel(image, xy) == image.px[xy]

\* mutant of val565: red and blue exchanged
val565_swapped(r, g, b) ==
    BitOr(BitOr(Shl(BitAnd(b, 248), 8), Shl(BitAnd(g, 252), 3)), Shr(r, 3))

\* val565 = ((r & 0xF8) << 8) | ((g & 0xFC) << 3) | (b >> 3)
val565(r, g, b) ==
    BitOr(BitOr(Shl(BitAnd(r, 248), 8), Shl(BitAnd(g, 252), 3)), Shr(b, 3))

\* lo = val565 & 0xFF; hi = (val565 >> 8) & 0xFF; out.extend((lo, hi))
pixel_bytes(rgb) ==
    LET v == val565(rgb[1], rgb[2], rgb[3])
        lo == BitAnd(v, 255)
        hi == BitAnd(Shr(v, 8), 255)
    IN  <<lo, hi>>

\* mutant of the scan: the rows of a column from top to bottom
column_coords_topdown(x, h) == [j \in 1..h |-> <<x, j - 1>>]

\* [(x, y) for y in range(height - 1, -1, -1)] for one x
column_coords(x, h) == [j \in 1..h |-> <<x, h - j>>]

RECURSIVE coords_from(_, _, _)
coords_from(x, w, h) ==
    IF x >= w THEN <<>>
    ELSE column_coords(x, h) \o coords_from(x + 1, w, h)

\* coords = [(x, y) for x in range(width) for y in range(height - 1, -1, -1)]
coords(w, h) == coords_from(0, w, h)

\* mutants of the marker test: the first pixel of a column instead of the
\* last, and the width taken for the height
is_marker_first(i, image) == (i - 1) % image.size[2] = 0

is_marker_width(i, image) == i % image.size[1] = 0

\* the marker test of the loop: i % height == 0
is_marker(i, image) == i % image.size[2] = 0

\* one iteration of the loop over enumerate(coords, start=1)
encode_step(image, cs, i) ==
    IF is_marker(i, image) THEN <<0, 0>>
    ELSE pixel_bytes(getpixel(image, cs[i]))

\* iterations lo..hi of the loop, each extending out by two bytes; the
\* iterations carry no state but out, so the range is split in halves to
\* keep the evaluation shallow
RECURSIVE encode_loop(_, _, _, _)
encode_loop(image, cs, lo, hi) ==
    IF lo > hi THEN <<>>
    ELSE IF lo = hi THEN encode_step(image, cs, lo)
    ELSE LET mid == (lo + hi) \div 2
         IN  encode_loop(image, cs, lo, mid) \o encode_loop(image, cs, mid + 1, hi)

_encode_image(image) ==
    LET w == image.size[1]
        h == image.size[2]
        cs == coords(w, h)
    IN  encode_loop(image, cs, 1, Len(cs))

(***************************************************************************)
(* Packetizer: DisplayDevice._prepare_frame_packets and the identical      *)
(* USBDisplayDevice._prepare_frame_packets.                                *)
(***************************************************************************)
\* mutants of the loop body: the padding left out, the slice one byte short
make_packet_unpadded(bytes, c, i) == <<0>> \o Slice(bytes, i, i + c)

make_packet_short(bytes, c, i) ==
    LET chunk == Slice(bytes, i, i + c - 1)
        padded == IF Len(chunk) < c THEN chunk \o Zeros(c - Len(chunk)) ELSE chunk
    IN  <<0>> \o padded

\* the body of the for loop for one offset i
make_packet(bytes, c, i) ==
    LET chunk == Slice(bytes, i, i + c)
        padded == IF Len(chunk) < c THEN chunk \o Zeros(c - Len(chunk)) ELSE chunk
    IN  <<0>> \o padded

_prepare_frame_packets(bytes, c) ==
    LET offsets == Range(0, Len(bytes), c)
    IN  [k \in 1..Len(offsets) |-> make_packet(bytes, c, offsets[k])]

(***************************************************************************)
(* Device classes: the constructor arguments and get_header of             *)
(* DisplayDevice04185303, DisplayDevice04185304, DisplayDevice04168001,    *)
(* DisplayDevice04165302 and ChiZhuDisplay.                                *)
(***************************************************************************)
Classes == {"DisplayDevice04185303", "DisplayDevice04185304",
            "DisplayDevice04168001", "DisplayDevice04165302", "ChiZhuDisplay"}

\* the subclasses of DisplayDevice (hid.Device); ChiZhuDisplay is a
\* USBDisplayDevice
IsHID(c) == c \in {"DisplayDevice04185303", "DisplayDevice04185304",
                   "DisplayDevice04168001", "DisplayDevice04165302"}

\* super().__init__(vid, pid, chunk_size, width, height, config_file)
ctor_args(c) ==
    CASE c = "DisplayDevice04185303" ->
           [vid |-> 1048, pid |-> 21251, chunk_size |-> 64, width |-> 320, height |-> 320]
      [] c = "DisplayDevice04185304" ->
           [vid |-> 1048, pid |-> 21252, chunk_size |-> 512, width |-> 480, height |-> 480]
      [] c = "DisplayDevice04168001" ->
           [vid |-> 1046, pid |-> 32769, chunk_size |-> 64, width |-> 480, height |-> 480]
      [] c = "DisplayDevice04165302" ->
           [vid |-> 1046, pid |-> 21250, chunk_size |-> 512, width |-> 320, height |-> 240]
      [] c = "ChiZhuDisplay" ->
           [vid |-> 34733, pid |-> 28891, chunk_size |-> 512, width |-> 480, height |-> 480]

\* the struct format a class's get_header packs: '<BBHHH' is the simple
\* layout, the DA DB DC DD prefix followed by '<6HIH' the extended one
Layout(c) ==
    IF c \in {"DisplayDevice04168001", "DisplayDevice04165302"}
    THEN "extended" ELSE "simple"

\* struct.pack('<BBHHH', 0x69, 0x88, w, h, 0)
pack_simple(w, h) == PackB(105) \o PackB(136) \o PackH(w) \o PackH(h) \o PackH(0)

\* bytes([0xDA, 0xDB, 0xDC, 0xDD]) + struct.pack('<6HIH', 2, 1, w, h, 2, 0, n, 0)
pack_extended(w, h, n) ==
    <<218, 219, 220, 221>> \o PackH(2) \o PackH(1) \o PackH(w) \o PackH(h)
        \o PackH(2) \o PackH(0) \o PackI(n) \o PackH(0)

\* mutants of get_header: the byte count packed as a 16-bit field, the
\* geometry of one class transposed, a header that counts frames
get_header_short(self) ==
    CASE self.cls = "DisplayDevice04185303" -> pack_simple(320, 320)
      [] self.cls = "DisplayDevice04185304" -> pack_simple(480, 480)
      [] self.cls = "DisplayDevice04168001" ->
           SubSeq(pack_extended(480, 480, 460800), 1, 18) \o PackH(0)
      [] self.cls = "DisplayDevice04165302" ->
           SubSeq(pack_extended(320, 240, 153600), 1, 18) \o PackH(0)
      [] self.cls = "ChiZhuDisplay" -> pack_simple(480, 480)

get_header_transposed(self) ==
    CASE self.cls = "DisplayDevice04185303" -> pack_simple(320, 320)
      [] self.cls = "DisplayDevice04185304" -> pack_simple(480, 480)
      [] self.cls = "DisplayDevice04168001" -> pack_extended(480, 480, 460800)
      [] self.cls = "DisplayDevice04165302" -> pack_extended(240, 320, 153600)
      [] self.cls = "ChiZhuDisplay" -> pack_simple(480, 480)

get_header_counting(self) ==
    CASE self.cls = "DisplayDevice04185303" -> pack_simple(320, 320)
      [] self.cls = "DisplayDevice04185304" -> pack_simple(480, 480)
      [] self.cls = "DisplayDevice04168001" -> pack_extended(480, 480, 460800)
      [] self.cls = "DisplayDevice04165302" -> pack_extended(320, 240, 153600)
      [] self.cls = "ChiZhuDisplay" ->
           PackB(105) \o PackB(136) \o PackH(480) \o PackH(480) \o PackH(self.frames)

\* get_header(self) of each class; self carries the fields a header could
\* read: the class, self.width, self.height and the frames sent so far
get_header(self) ==
    CASE self.cls = "DisplayDevice04185303" -> pack_simple(320, 320)
      [] self.cls = "DisplayDevice04185304" -> pack_simple(480, 480)
      [] self.cls = "DisplayDevice04168001" -> pack_extended(480, 480, 460800)
      [] self.cls = "DisplayDevice04165302" -> pack_extended(320, 240, 153600)
      [] self.cls = "ChiZhuDisplay" -> pack_simple(480, 480)

(***************************************************************************)
(* Inputs of the model.                                                    *)
(***************************************************************************)
CoordSet(w, h) == (0..(w - 1)) \X (0..(h - 1))

Red == <<255, 0, 0>>
Green == <<0, 255, 0>>
Blue == <<0, 0, 255>>
White == <<255, 255, 255>>
Palette == {Red, Green}

\* every image of up to MaxW x MaxH pixels over the palette
SmallImages ==
    UNION {{[size |-> <<w, h>>, px |-> f] : f \in [CoordSet(w, h) -> Palette]} :
           w \in 1..MaxW, h \in 1..MaxH}

\* the 2x2 image with pixels red, green, blue, white in row-major order
TestImage2x2 ==
    [size |-> <<2, 2>>,
     px |-> [xy \in CoordSet(2, 2) |->
               CASE xy = <<0, 0>> -> Red
                 [] xy = <<1, 0>> -> Green
                 [] xy = <<0, 1>> -> Blue
                 [] xy = <<1, 1>> -> White]]

\* one-column images of one colour, over colours that exercise the bits
\* the packing keeps and the bits it drops
Shades == {0, 1, 3, 4, 7, 8, 15, 16, 31, 32, 63, 64, 127, 128, 131, 248, 251, 252, 255}
ProbeImages ==
    {[size |-> <<1, 2>>, px |-> [xy \in CoordSet(1, 2) |-> <<r, g, b>>]] :
     r \in Shades, g \in Shades, b \in Shades}

Images == SmallImages \cup {TestImage2x2} \cup ProbeImages

\* payloads of up to MaxLen bytes
PayloadBytes == {0, 1, 255}
Payloads == UNION {[1..n -> PayloadBytes] : n \in 0..MaxLen}

\* the frames the generator of a session hands out: one image per size,
\* small enough to check and large enough to fill one packet exactly and to
\* need several packets at both chunk sizes
GenSizes == {<<2, 2>>, <<4, 7>>, <<16, 16>>}
GenImage(size) ==
    [size |-> size,
     px |-> [xy \in CoordSet(size[1], size[2]) |->
               IF (xy[1] + xy[2]) % 2 = 0 THEN White ELSE Blue]]
GenImages == {GenImage(size) : size \in GenSizes}

(***************************************************************************)
(* Harness of the packetizer: a payload and a chunk size, then one call.   *)
(***************************************************************************)
SessionIdle ==
    /\ cls = "none" /\ width = 0 /\ height = 0 /\ header = <<>>
    /\ last_modified = 0 /\ generator = None /\ mtime = 0 /\ builds = 0
    /\ built_from = 0 /\ pull = NoPull /\ frame_header = <<>> /\ pkt_idx = 0
    /\ written = NoPacket /\ frames = 0 /\ fversion = 0 /\ replaced = FALSE
    /\ fail = NoFail /\ init_sent = <<>> /\ usb_present = FALSE
    /\ kernel_driver = "none" /\ claimed = FALSE /\ hid_devices = <<>>

InitPacketizer ==
    /\ pc = "packetize"
    /\ chunk_size \in 1..MaxChunk
    /\ img_bytes \in Payloads
    /\ frame_packets = <<>>
    /\ img = NoImage
    /\ encoded = <<>>
    /\ SessionIdle
    /\ HarnessIdle

Packetize ==
    /\ pc = "packetize"
    /\ frame_packets' = _prepare_frame_packets(img_bytes, chunk_size)
    /\ pc' = "packetized"
    /\ UNCHANGED <<cls, chunk_size, width, height, header, last_modified,
                   generator, mtime, builds, built_from, pull, img, frame_header,
                   img_bytes, pkt_idx, written, frames, encoded, fversion,
                   replaced, fail, init_sent, usb_present, kernel_driver,
                   claimed, hid_devices, harnessVars>>

SpecPacketizer == InitPacketizer /\ [][Packetize]_vars

(***************************************************************************)
(* Harness of the pixel encoder: an image, then one call.                  *)
(***************************************************************************)
InitEncoder ==
    /\ pc = "encode"
    /\ img \in Images
    /\ encoded = <<>>
    /\ chunk_size = 0
    /\ img_bytes = <<>>
    /\ frame_packets = <<>>
    /\ SessionIdle
    /\ HarnessIdle

Encode ==
    /\ pc = "encode"
    /\ encoded' = _encode_image(img)
    /\ pc' = "encoded"
    /\ UNCHANGED <<cls, chunk_size, width, height, header, last_modified,
                   generator, mtime, builds, built_from, pull, img, frame_header,
                   img_bytes, frame_packets, pkt_idx, written, frames, fversion,
                   replaced, fail, init_sent, usb_present, kernel_driver,
                   claimed, hid_devices, harnessVars>>

SpecEncoder == InitEncoder /\ [][Encode]_vars

(***************************************************************************)
(* Harness of load_device: what hid.enumerate() lists and whether          *)
(* usb.core.find finds the USB-only panel, then one call.                  *)
(***************************************************************************)
\* mutant of match_device: the product id alone selects the class
match_device_by_pid(vid, pid) ==
    IF pid = 21250 THEN "DisplayDevice04165302"
    ELSE IF pid = 32769 THEN "DisplayDevice04168001"
    ELSE IF pid = 21251 THEN "DisplayDevice04185303"
    ELSE IF pid = 21252 THEN "DisplayDevice04185304"
    ELSE "none"

\* the body of the for loop of load_device: the class it constructs for an
\* enumerated device, "none" when it goes on to the next one
\* (0x0416 = 1046, 0x0418 = 1048, 0x5302 = 21250, 0x5303 = 21251,
\* 0x5304 = 21252, 0x8001 = 32769)
match_device(vid, pid) ==
    IF vid = 1046
    THEN IF pid = 21250 THEN "DisplayDevice04165302"
         ELSE IF pid = 32769 THEN "DisplayDevice04168001"
         ELSE "none"
    ELSE IF vid = 1048
    THEN IF pid = 21251 THEN "DisplayDevice04185303"
         ELSE IF pid = 21252 THEN "DisplayDevice04185304"
         ELSE "none"
    ELSE "none"

\* for device in hid.enumerate(): ..., from the i-th entry on, then the
\* fallback probe; "none" stands for raise Exception("No supported
\* device found")
RECURSIVE load_device_from(_, _, _)
load_device_from(devices, i, usb_found) ==
    IF i > Len(devices)
    THEN IF usb_found THEN "ChiZhuDisplay" ELSE "none"
    ELSE IF match_device(devices[i][1], devices[i][2]) # "none"
         THEN match_device(devices[i][1], devices[i][2])
         ELSE load_device_from(devices, i + 1, usb_found)

load_device(devices, usb_found) == load_device_from(devices, 1, usb_found)

\* the identities hid.enumerate() can list: the four supported panels, a
\* supported vendor with the product id of the other vendor, a foreign
\* device, and the USB-only panel
HidIds == {<<1046, 21250>>, <<1046, 32769>>, <<1048, 21251>>, <<1048, 21252>>,
           <<1046, 21251>>, <<1048, 32769>>, <<1133, 50475>>, <<34733, 28891>>}

HidLists == UNION {[1..n -> HidIds] : n \in 0..MaxHid}

InitLoad ==
    /\ pc = "load"
    /\ hid_devices \in HidLists
    /\ usb_present \in BOOLEAN
    /\ cls = "none" /\ chunk_size = 0 /\ width = 0 /\ height = 0
    /\ header = <<>> /\ last_modified = 0 /\ generator = None /\ mtime = 0
    /\ fversion = 0 /\ replaced = FALSE /\ builds = 0 /\ built_from = 0
    /\ pull = NoPull /\ img = NoImage /\ frame_header = <<>>
    /\ img_bytes = <<>> /\ frame_packets = <<>> /\ pkt_idx = 0
    /\ written = NoPacket /\ frames = 0 /\ encoded = <<>> /\ fail = NoFail
    /\ init_sent = <<>> /\ kernel_driver = "none" /\ claimed = FALSE
    /\ HarnessIdle

\* load_device(config_file): the class whose constructor is called, or the
\* exception, which the except clause wraps and raises again
LoadDevice ==
    /\ pc = "load"
    /\ cls' = load_device(hid_devices, usb_present)
    /\ fail' = IF cls' = "none"
               THEN [NoFail EXCEPT !.kind = "nodevice"] ELSE fail
    /\ pc' = IF cls' = "none" THEN "raised" ELSE "ctor"
    /\ UNCHANGED <<chunk_size, width, height, header, last_modified, generator,
                   mtime, fversion, replaced, builds, built_from, pull, img,
                   frame_header, img_bytes, frame_packets, pkt_idx, written,
                   frames, encoded, init_sent, usb_present, kernel_driver,
                   claimed, hid_devices, harnessVars>>

SpecLoad == InitLoad /\ [][LoadDevice]_vars

(***************************************************************************)
(* A session, as run_display.main drives it: load_device constructs the    *)
(* device object, main sends the initialization sequence of a class that   *)
(* has one and calls run().  The configuration file is written by its      *)
(* editor at any moment (FileTouch, FileReplace).  _get_generator is       *)
(* modelled statement by statement, since the file may change between its  *)
(* stat calls and the load.  A call into the USB stack, the configuration  *)
(* loader or the generator either returns or raises; nothing in            *)
(* display_device.py catches, so an exception ends run() and reaches the   *)
(* except clause of main.                                                  *)
(***************************************************************************)
\* the fields of self that get_header can read
Self == [cls |-> cls, width |-> width, height |-> height, frames |-> frames]

\* ConfigLoader.load_config(self.config_file): the configuration as the
\* file on disk holds it, with the output geometry written in the file
load_config ==
    [version |-> fversion, mtime |-> mtime,
     output_width |-> 160 * fversion, output_height |-> 120 * fversion]

\* mutant of _build_generator: the geometry of the file is kept
_build_generator_unforced(origin) ==
    LET config == load_config
    IN  [id |-> builds + 1, config |-> config.version,
         config_mtime |-> config.mtime,
         output_width |-> config.output_width,
         output_height |-> config.output_height,
         file_width |-> config.output_width,
         file_height |-> config.output_height,
         origin |-> origin]

\* _build_generator: the configuration is loaded from the file as it is on
\* disk, its output geometry is overwritten with self.width and
\* self.height, and a new DisplayGenerator is returned; id tells the
\* instances apart, origin is the call site, file_width and file_height
\* remember what the file held
_build_generator(origin) ==
    LET config == load_config
    IN  [id |-> builds + 1, config |-> config.version,
         config_mtime |-> config.mtime,
         output_width |-> width,
         output_height |-> height,
         file_width |-> config.output_width,
         file_height |-> config.output_height,
         origin |-> origin]

\* mutant of the staleness test: a change of one tick goes unnoticed
is_stale_late(stat, last) == stat > last + 1

\* pathlib.Path(self.config_file).stat().st_mtime_ns > self.last_modified
is_stale(stat, last) == stat > last

\* mutant of main's test: every device is sent the sequence
has_send_init_sequence_always(c) == TRUE

\* hasattr(device, "send_init_sequence"): USBDisplayDevice defines it,
\* DisplayDevice does not
has_send_init_sequence(c) == ~IsHID(c)

\* bytes.fromhex of a string given as its hexadecimal digits
fromhex(digits) ==
    [k \in 1..(Len(digits) \div 2) |-> 16 * digits[2 * k - 1] + digits[2 * k]]

\* the literals of send_init_sequence, digit by digit
init1_hex ==
    <<1, 11, 0, 0, 1, 0, 13, 0, 9, 14, 2, 7, 0, 2, 8, 14, 15, 15, 15, 15, 0,
      0, 0, 0, 0, 0, 0, 0, 0, 9, 0, 0, 0, 0, 0, 1, 0, 0, 0, 2, 0, 0, 0, 1,
      0, 3, 4, 0, 0, 0, 0, 0, 0, 0, 1, 2, 3, 4, 5, 6, 7, 8, 0, 0, 0, 0, 0,
      0, 0, 0, 0, 0, 0, 0, 0, 0, 0, 0, 0, 0, 0, 0, 0, 0, 0, 0, 0, 0, 0, 0,
      0, 0, 0, 0, 0, 0, 0, 0, 0, 0, 0, 0, 0, 0, 0, 0, 0, 0, 0, 0, 0, 0, 0,
      0, 0, 0, 0, 0, 0, 0, 0, 0, 0, 0, 0, 0, 0, 0, 0, 0, 0, 0, 0, 0, 0, 0,
      0, 0, 0, 0, 0, 0, 0, 0, 0, 0, 0, 0, 0, 0, 0, 0, 0, 0, 0, 0, 0, 0, 0,
      0, 0, 0, 0, 0, 0, 0, 0, 1, 0, 0, 0, 0, 0, 0, 0, 0, 0, 0, 0, 0, 0, 0>>

init2_hex ==
    <<1, 11, 0, 0, 1, 0, 9, 0, 7, 2, 2, 7, 0, 2, 8, 14, 15, 15, 15, 15, 0,
      0, 0, 0, 0, 0, 0, 0, 0, 9, 0, 0, 0, 1, 0, 1, 0, 0, 0, 2, 0, 0, 0, 1,
      0, 3, 0, 0, 0, 0, 0, 0, 0, 0>>

init1 == fromhex(init1_hex)
init2_raw == fromhex(init2_hex)

\* what an exception leaves behind: the statement that raised and the
\* state of the loop at that moment
Failure(kind) ==
    [kind |-> kind, last |-> written, frames |-> frames, pulls |-> pull.n,
     img |-> img, idx |-> pkt_idx, inits |-> init_sent]

SessionPcs == {"ctor", "ctor_find", "ctor_detach", "ctor_claim", "ctor_build",
               "init1", "init2", "run", "gg_restat", "gg_build", "gg_return",
               "write", "sleep"}

Init ==
    /\ pc = "ctor"
    /\ cls \in Classes
    /\ chunk_size = 0 /\ width = 0 /\ height = 0
    /\ header = <<>>
    /\ last_modified = 0
    /\ generator = None
    /\ mtime = 1
    /\ fversion = 1
    /\ replaced = FALSE
    /\ builds = 0
    /\ built_from = 0
    /\ pull = NoPull
    /\ img = NoImage
    /\ frame_header = <<>>
    /\ img_bytes = <<>>
    /\ frame_packets = <<>>
    /\ pkt_idx = 0
    /\ written = NoPacket
    /\ frames = 0
    /\ encoded = <<>>
    /\ fail = NoFail
    /\ init_sent = <<>>
    /\ usb_present = TRUE
    /\ hid_devices = <<>>
    /\ HarnessIdle
    /\ kernel_driver \in (IF IsHID(cls) THEN {"none"} ELSE {"none", "bound"})
    /\ claimed = FALSE

\* the editor saves the configuration file: new content, later timestamp
FileTouch ==
    /\ pc \in SessionPcs
    /\ fversion <= MaxMtime
    /\ mtime' = mtime + 1
    /\ fversion' = fversion + 1
    /\ UNCHANGED <<pc, cls, chunk_size, width, height, header, last_modified,
                   generator, replaced, builds, built_from, pull, img,
                   frame_header, img_bytes, frame_packets, pkt_idx, written,
                   frames, encoded, fail, init_sent, usb_present,
                   kernel_driver, claimed, hid_devices, harnessVars>>

\* the file is replaced by one whose timestamp is not later (a copy that
\* keeps its timestamp, a restored backup, a write within one clock tick)
FileReplace ==
    /\ pc \in SessionPcs
    /\ fversion <= MaxMtime
    /\ \E m \in 1..mtime : mtime' = m
    /\ fversion' = fversion + 1
    /\ replaced' = TRUE
    /\ UNCHANGED <<pc, cls, chunk_size, width, height, header, last_modified,
                   generator, builds, built_from, pull, img, frame_header,
                   img_bytes, frame_packets, pkt_idx, written, frames, encoded,
                   fail, init_sent, usb_present, kernel_driver, claimed,
                   hid_devices, harnessVars>>

\* the panel is unplugged between load_device's probe and the constructor's
Unplug ==
    /\ pc \in {"ctor", "ctor_find"}
    /\ ~IsHID(cls)
    /\ usb_present
    /\ usb_present' = FALSE
    /\ UNCHANGED <<pc, cls, chunk_size, width, height, header, last_modified,
                   generator, mtime, fversion, replaced, builds, built_from,
                   pull, img, frame_header, img_bytes, frame_packets, pkt_idx,
                   written, frames, encoded, fail, init_sent, kernel_driver,
                   claimed, hid_devices, harnessVars>>

\* DisplayDevice.__init__ up to the stat of the configuration file
\* (USBDisplayDevice.__init__ likewise: it keeps no header)
CtorFields ==
    /\ pc = "ctor"
    /\ chunk_size' = ctor_args(cls).chunk_size
    /\ width' = ctor_args(cls).width
    /\ height' = ctor_args(cls).height
    /\ header' = IF IsHID(cls)
                 THEN get_header([cls |-> cls, width |-> ctor_args(cls).width,
                                  height |-> ctor_args(cls).height,
                                  frames |-> frames])
                 ELSE header
    /\ last_modified' = mtime
    /\ pc' = IF IsHID(cls) THEN "ctor_build" ELSE "ctor_find"
    /\ UNCHANGED <<cls, generator, mtime, fversion, replaced, builds,
                   built_from, pull, img, frame_header, img_bytes,
                   frame_packets, pkt_idx, written, frames, encoded, fail,
                   init_sent, usb_present, kernel_driver, claimed, hid_devices,
                   harnessVars>>

\* USBDisplayDevice.__init__: self.dev = usb.core.find(...), found
CtorFind ==
    /\ pc = "ctor_find"
    /\ usb_present
    /\ pc' = "ctor_detach"
    /\ UNCHANGED <<cls, chunk_size, width, height, header, last_modified,
                   generator, mtime, fversion, replaced, builds, built_from,
                   pull, img, frame_header, img_bytes, frame_packets, pkt_idx,
                   written, frames, encoded, fail, init_sent, usb_present,
                   kernel_driver, claimed, hid_devices, harnessVars>>

\* USBDisplayDevice.__init__: self.dev is None, ValueError
CtorFindNone ==
    /\ pc = "ctor_find"
    /\ ~usb_present
    /\ fail' = Failure("notfound")
    /\ pc' = "raised"
    /\ UNCHANGED <<cls, chunk_size, width, height, header, last_modified,
                   generator, mtime, fversion, replaced, builds, built_from,
                   pull, img, frame_header, img_bytes, frame_packets, pkt_idx,
                   written, frames, encoded, init_sent, usb_present,
                   kernel_driver, claimed, hid_devices, harnessVars>>

\* a mutant of CtorDetach: the driver is left bound
CtorDetach_skipped ==
    /\ pc = "ctor_detach"
    /\ pc' = "ctor_claim"
    /\ UNCHANGED <<cls, chunk_size, width, height, header, last_modified,
                   generator, mtime, fversion, replaced, builds, built_from,
                   pull, img, frame_header, img_bytes, frame_packets, pkt_idx,
                   written, frames, encoded, fail, init_sent, usb_present,
                   kernel_driver, claimed, hid_devices, harnessVars>>

\* if self.dev.is_kernel_driver_active(self.interface):
\*     self.dev.detach_kernel_driver(self.interface)
CtorDetach ==
    /\ pc = "ctor_detach"
    /\ kernel_driver' = IF kernel_driver = "bound" THEN "detached"
                        ELSE kernel_driver
    /\ pc' = "ctor_claim"
    /\ UNCHANGED <<cls, chunk_size, width, height, header, last_modified,
                   generator, mtime, fversion, replaced, builds, built_from,
                   pull, img, frame_header, img_bytes, frame_packets, pkt_idx,
                   written, frames, encoded, fail, init_sent, usb_present,
                   claimed, hid_devices, harnessVars>>

\* usb.util.claim_interface(self.dev, self.interface)
CtorClaim ==
    /\ pc = "ctor_claim"
    /\ claimed' = TRUE
    /\ pc' = "ctor_build"
    /\ UNCHANGED <<cls, chunk_size, width, height, header, last_modified,
                   generator, mtime, fversion, replaced, builds, built_from,
                   pull, img, frame_header, img_bytes, frame_packets, pkt_idx,
                   written, frames, encoded, fail, init_sent, usb_present,
                   kernel_driver, hid_devices, harnessVars>>

\* the _build_generator call that ends __init__: DisplayDevice drops its
\* result, USBDisplayDevice assigns it to self._generator; main then sends
\* the initialization sequence if the device has one, and calls run()
CtorBuild ==
    /\ pc = "ctor_build"
    /\ builds' = builds + 1
    /\ built_from' = mtime
    /\ generator' = IF IsHID(cls) THEN generator ELSE _build_generator("init")
    /\ pc' = IF has_send_init_sequence(cls) THEN "init1" ELSE "run"
    /\ UNCHANGED <<cls, chunk_size, width, height, header, last_modified,
                   mtime, fversion, replaced, pull, img, frame_header,
                   img_bytes, frame_packets, pkt_idx, written, frames, encoded,
                   fail, init_sent, usb_present, kernel_driver, claimed,
                   hid_devices, harnessVars>>

\* load_config or DisplayGenerator raises in the constructor
CtorBuildFail ==
    /\ pc = "ctor_build"
    /\ fail' = Failure("ctor_build")
    /\ pc' = "raised"
    /\ UNCHANGED <<cls, chunk_size, width, height, header, last_modified,
                   generator, mtime, fversion, replaced, builds, built_from,
                   pull, img, frame_header, img_bytes, frame_packets, pkt_idx,
                   written, frames, encoded, init_sent, usb_present,
                   kernel_driver, claimed, hid_devices, harnessVars>>

\* send_init_sequence: the two assertions, then
\* self.dev.write(self.endpoint_out, init1)
SendInit1 ==
    /\ pc = "init1"
    /\ IF Len(init1) = 91 /\ Len(init2_raw) = 27
       THEN /\ init_sent' = Append(init_sent, init1)
            /\ pc' = "init2"
            /\ fail' = fail
       ELSE /\ init_sent' = init_sent
            /\ pc' = "raised"
            /\ fail' = Failure("assert")
    /\ UNCHANGED <<cls, chunk_size, width, height, header, last_modified,
                   generator, mtime, fversion, replaced, builds, built_from,
                   pull, img, frame_header, img_bytes, frame_packets, pkt_idx,
                   written, frames, encoded, usb_present, kernel_driver,
                   claimed, hid_devices, harnessVars>>

\* self.dev.write(self.endpoint_out, init2_raw), then main calls run()
SendInit2 ==
    /\ pc = "init2"
    /\ init_sent' = Append(init_sent, init2_raw)
    /\ pc' = "run"
    /\ UNCHANGED <<cls, chunk_size, width, height, header, last_modified,
                   generator, mtime, fversion, replaced, builds, built_from,
                   pull, img, frame_header, img_bytes, frame_packets, pkt_idx,
                   written, frames, encoded, fail, usb_present, kernel_driver,
                   claimed, hid_devices, harnessVars>>

\* a write of send_init_sequence raises
SendInitFail ==
    /\ pc \in {"init1", "init2"}
    /\ fail' = Failure("init_write")
    /\ pc' = "raised"
    /\ UNCHANGED <<cls, chunk_size, width, height, header, last_modified,
                   generator, mtime, fversion, replaced, builds, built_from,
                   pull, img, frame_header, img_bytes, frame_packets, pkt_idx,
                   written, frames, encoded, init_sent, usb_present,
                   kernel_driver, claimed, hid_devices, harnessVars>>

\* run(): the loop calls _get_generator, which tests self._generator and
\* stats the configuration file
GetGeneratorCheck ==
    /\ pc = "run"
    /\ frames < MaxFrames
    /\ pull' = [n |-> pull.n + 1, advanced |-> mtime > built_from,
                builds0 |-> builds, mtime0 |-> mtime, version0 |-> fversion,
                gen0 |-> generator, last0 |-> last_modified,
                prev |-> IF pull.n = 0 THEN None ELSE generator, done |-> FALSE]
    /\ pc' = IF generator = None THEN "gg_build"
             ELSE IF is_stale(mtime, last_modified) THEN "gg_restat"
             ELSE "gg_return"
    /\ UNCHANGED <<cls, chunk_size, width, height, header, last_modified,
                   generator, mtime, fversion, replaced, builds, built_from,
                   img, frame_header, img_bytes, frame_packets, pkt_idx,
                   written, frames, encoded, fail, init_sent, usb_present,
                   kernel_driver, claimed, hid_devices, harnessVars>>

\* self.last_modified = pathlib.Path(self.config_file).stat().st_mtime_ns
GetGeneratorRestat ==
    /\ pc = "gg_restat"
    /\ last_modified' = mtime
    /\ pc' = "gg_build"
    /\ UNCHANGED <<cls, chunk_size, width, height, header, generator, mtime,
                   fversion, replaced, builds, built_from, pull, img,
                   frame_header, img_bytes, frame_packets, pkt_idx, written,
                   frames, encoded, fail, init_sent, usb_present,
                   kernel_driver, claimed, hid_devices, harnessVars>>

\* self._generator = self._build_generator()
GetGeneratorBuild ==
    /\ pc = "gg_build"
    /\ generator' = _build_generator(IF generator = None THEN "lazy" ELSE "reload")
    /\ builds' = builds + 1
    /\ built_from' = mtime
    /\ pc' = "gg_return"
    /\ UNCHANGED <<cls, chunk_size, width, height, header, last_modified,
                   mtime, fversion, replaced, pull, img, frame_header,
                   img_bytes, frame_packets, pkt_idx, written, frames, encoded,
                   fail, init_sent, usb_present, kernel_driver, claimed,
                   hid_devices, harnessVars>>

\* a mutant of GetGeneratorBuildFail: the exception is swallowed and the
\* generator in use is kept
GetGeneratorBuildFail_swallowed ==
    /\ pc = "gg_build"
    /\ generator # None
    /\ fail' = Failure("build")
    /\ pc' = "gg_return"
    /\ UNCHANGED <<cls, chunk_size, width, height, header, last_modified,
                   generator, mtime, fversion, replaced, builds, built_from,
                   pull, img, frame_header, img_bytes, frame_packets, pkt_idx,
                   written, frames, encoded, init_sent, usb_present,
                   kernel_driver, claimed, hid_devices, harnessVars>>

\* load_config or DisplayGenerator raises inside _get_generator: the
\* exception leaves _get_generator and run()
GetGeneratorBuildFail ==
    /\ pc = "gg_build"
    /\ fail' = Failure("build")
    /\ pc' = "raised"
    /\ UNCHANGED <<cls, chunk_size, width, height, header, last_modified,
                   generator, mtime, fversion, replaced, builds, built_from,
                   pull, img, frame_header, img_bytes, frame_packets, pkt_idx,
                   written, frames, encoded, init_sent, usb_present,
                   kernel_driver, claimed, hid_devices, harnessVars>>

\* self._encode_image(img) of each frame the generator hands out
GenEncoded == [image \in GenImages |-> _encode_image(image)]

\* _get_generator returns self._generator; the generator hands out a frame,
\* which run() encodes behind the header and cuts into packets
GetFrame ==
    /\ pc = "gg_return"
    /\ \E image \in GenImages :
          /\ img' = image
          /\ frame_header' = get_header(Self)
          /\ img_bytes' = frame_header' \o GenEncoded[image]
          /\ frame_packets' = _prepare_frame_packets(img_bytes', chunk_size)
    /\ pull' = [pull EXCEPT !.done = TRUE]
    /\ pkt_idx' = 1
    /\ pc' = IF frame_packets' = <<>> THEN "sleep" ELSE "write"
    /\ UNCHANGED <<cls, chunk_size, width, height, header, last_modified,
                   generator, mtime, fversion, replaced, builds, built_from,
                   written, frames, encoded, fail, init_sent, usb_present,
                   kernel_driver, claimed, hid_devices, harnessVars>>

\* a mutant of WritePacket: the packets of a frame go out last first
WritePacket_reversed ==
    /\ pc = "write"
    /\ pkt_idx <= Len(frame_packets)
    /\ written' = [frame |-> frames + 1, idx |-> Len(frame_packets) + 1 - pkt_idx,
                   of |-> Len(frame_packets), payload_len |-> Len(img_bytes),
                   data |-> frame_packets[Len(frame_packets) + 1 - pkt_idx]]
    /\ pkt_idx' = pkt_idx + 1
    /\ pc' = IF pkt_idx = Len(frame_packets) THEN "sleep" ELSE "write"
    /\ UNCHANGED <<cls, chunk_size, width, height, header, last_modified,
                   generator, mtime, fversion, replaced, builds, built_from,
                   pull, img, frame_header, img_bytes, frame_packets, frames,
                   encoded, fail, init_sent, usb_present, kernel_driver,
                   claimed, hid_devices, harnessVars>>

\* one iteration of the for loop: self.write(packet) or
\* self.dev.write(self.endpoint_out, packet)
WritePacket ==
    /\ pc = "write"
    /\ pkt_idx <= Len(frame_packets)
    /\ written' = [frame |-> frames + 1, idx |-> pkt_idx,
                   of |-> Len(frame_packets), payload_len |-> Len(img_bytes),
                   data |-> frame_packets[pkt_idx]]
    /\ pkt_idx' = pkt_idx + 1
    /\ pc' = IF pkt_idx = Len(frame_packets) THEN "sleep" ELSE "write"
    /\ UNCHANGED <<cls, chunk_size, width, height, header, last_modified,
                   generator, mtime, fversion, replaced, builds, built_from,
                   pull, img, frame_header, img_bytes, frame_packets, frames,
                   encoded, fail, init_sent, usb_present, kernel_driver,
                   claimed, hid_devices, harnessVars>>

\* a mutant of WriteFail: the failed packet is skipped and the loop goes on
WriteFail_skipped ==
    /\ pc = "write"
    /\ pkt_idx <= Len(frame_packets)
    /\ fail' = Failure("write")
    /\ pkt_idx' = pkt_idx + 1
    /\ pc' = IF pkt_idx = Len(frame_packets) THEN "sleep" ELSE "write"
    /\ UNCHANGED <<cls, chunk_size, width, height, header, last_modified,
                   generator, mtime, fversion, replaced, builds, built_from,
                   pull, img, frame_header, img_bytes, frame_packets, written,
                   frames, encoded, init_sent, usb_present, kernel_driver,
                   claimed, hid_devices, harnessVars>>

\* the write of a packet raises: the exception leaves the for loop, the
\* while loop and run()
WriteFail ==
    /\ pc = "write"
    /\ pkt_idx <= Len(frame_packets)
    /\ fail' = Failure("write")
    /\ pc' = "raised"
    /\ UNCHANGED <<cls, chunk_size, width, height, header, last_modified,
                   generator, mtime, fversion, replaced, builds, built_from,
                   pull, img, frame_header, img_bytes, frame_packets, pkt_idx,
                   written, frames, encoded, init_sent, usb_present,
                   kernel_driver, claimed, hid_devices, harnessVars>>

\* a mutant of Sleep: the loop is left after the sleep
Sleep_returns ==
    /\ pc = "sleep"
    /\ frames' = frames + 1
    /\ pc' = "returned"
    /\ UNCHANGED <<cls, chunk_size, width, height, header, last_modified,
                   generator, mtime, fversion, replaced, builds, built_from,
                   pull, img, frame_header, img_bytes, frame_packets, pkt_idx,
                   written, encoded, fail, init_sent, usb_present,
                   kernel_driver, claimed, hid_devices, harnessVars>>

\* time.sleep(delay_time), then the next iteration of the while loop
Sleep ==
    /\ pc = "sleep"
    /\ frames' = frames + 1
    /\ pc' = "run"
    /\ UNCHANGED <<cls, chunk_size, width, height, header, last_modified,
                   generator, mtime, fversion, replaced, builds, built_from,
                   pull, img, frame_header, img_bytes, frame_packets, pkt_idx,
                   written, encoded, fail, init_sent, usb_present,
                   kernel_driver, claimed, hid_devices, harnessVars>>

\* main: except Exception as e: logger.exception(...); sys.exit(1)
MainExcept ==
    /\ pc = "raised"
    /\ pc' = "exited"
    /\ UNCHANGED <<cls, chunk_size, width, height, header, last_modified,
                   generator, mtime, fversion, replaced, builds, built_from,
                   pull, img, frame_header, img_bytes, frame_packets, pkt_idx,
                   written, frames, encoded, fail, init_sent, usb_present,
                   kernel_driver, claimed, hid_devices, harnessVars>>

Next ==
    \/ FileTouch
    \/ FileReplace
    \/ Unplug
    \/ CtorFields
    \/ CtorFind
    \/ CtorFindNone
    \/ CtorDetach
    \/ CtorClaim
    \/ CtorBuild
    \/ CtorBuildFail
    \/ SendInit1
    \/ SendInit2
    \/ SendInitFail
    \/ GetGeneratorCheck
    \/ GetGeneratorRestat
    \/ GetGeneratorBuild
    \/ GetGeneratorBuildFail
    \/ GetFrame
    \/ WritePacket
    \/ WriteFail
    \/ Sleep
    \/ MainExcept

Spec == Init /\ [][Next]_vars

\* the statements of the program itself: the interpreter runs the single
\* thread on, so a statement that can return does so eventually, unless
\* it raises
Program ==
    \/ CtorFields \/ CtorFind \/ CtorFindNone \/ CtorDetach \/ CtorClaim
    \/ CtorBuild \/ SendInit1 \/ SendInit2 \/ GetGeneratorCheck
    \/ GetGeneratorRestat \/ GetGeneratorBuild \/ GetFrame \/ WritePacket
    \/ Sleep \/ MainExcept

SpecFair == Spec /\ WF_vars(Program)

(***************************************************************************)
(* Properties of the packetizer (SpecPacketizer).                          *)
(***************************************************************************)
CeilDiv(n, c) == (n + c - 1) \div c

\* bytes 1..c of every packet, concatenated in the order of the packets
RECURSIVE JoinPayloads(_, _)
JoinPayloads(pkts, c) ==
    IF pkts = <<>> THEN <<>>
    ELSE SubSeq(Head(pkts), 2, c + 1) \o JoinPayloads(Tail(pkts), c)

\* C1: for every payload P and chunk size c > 0 the packetizer returns
\* ceil(len(P) / c) packets, and bytes 1..c of the packets, concatenated in
\* order and cut to len(P) bytes, are P
C1_PacketsCoverPayload ==
    pc = "packetized" =>
        /\ Len(frame_packets) = CeilDiv(Len(img_bytes), chunk_size)
        /\ \A k \in 1..Len(frame_packets) : Len(frame_packets[k]) = chunk_size + 1
        /\ SubSeq(JoinPayloads(frame_packets, chunk_size), 1, Len(img_bytes))
               = img_bytes

\* a payload that ends in a zero byte, spread over several packets, the
\* last of them padded
C1_Witness ==
    /\ pc = "packetized"
    /\ Len(frame_packets) >= 2
    /\ Len(img_bytes) % chunk_size # 0
    /\ img_bytes[Len(img_bytes)] = 0
    /\ img_bytes[1] # 0

\* the empty payload gives no packet
C1_WitnessEmpty == pc = "packetized" /\ img_bytes = <<>> /\ frame_packets = <<>>

(***************************************************************************)
(* Properties of the pixel encoder (SpecEncoder).                          *)
(***************************************************************************)
ImgW == img.size[1]
ImgH == img.size[2]

\* the two bytes of the k-th slot of the output, k counted from 0
Slot(k) == <<encoded[2 * k + 1], encoded[2 * k + 2]>>

\* C3: the output has 2 * width * height bytes, and the two bytes at offsets
\* [2(i-1), 2i) are zero for every 1-based scan index i with i mod height = 0
C3_LengthAndMarkers ==
    pc = "encoded" =>
        /\ Len(encoded) = 2 * ImgW * ImgH
        /\ \A i \in 1..(ImgW * ImgH) :
              i % ImgH = 0 => encoded[2 * (i - 1) + 1] = 0 /\ encoded[2 * i] = 0

\* an image of several columns and rows whose pixels at the marker
\* positions are not black
C3_Witness ==
    /\ pc = "encoded"
    /\ ImgW >= 2 /\ ImgH >= 2
    /\ \A x \in 0..(ImgW - 1) : img.px[<<x, 0>>] = Red

\* the 16-bit value of the claim, by arithmetic
V565(rgb) == (rgb[1] \div 8) * 2048 + (rgb[2] \div 4) * 32 + (rgb[3] \div 8)

\* C4: a pixel (r, g, b) emitted as a colour is emitted as the two bytes
\* (v mod 256, v div 256), v = (r div 8) * 2048 + (g div 4) * 32 + (b div 8);
\* v fits in 16 bits, red in bits 15..11, green in 10..5, blue in 4..0
C4_Rgb565LittleEndian ==
    pc = "encoded" =>
        \A k \in 0..(ImgW * ImgH - 1) :
            (k + 1) % ImgH # 0 =>
                LET rgb == img.px[<<k \div ImgH, ImgH - 1 - (k % ImgH)>>]
                    v == V565(rgb)
                    got == encoded[2 * k + 1] + 256 * encoded[2 * k + 2]
                IN  /\ Slot(k) = <<v % 256, v \div 256>>
                    /\ v < 65536
                    /\ got \div 2048 = rgb[1] \div 8
                    /\ (got \div 32) % 64 = rgb[2] \div 4
                    /\ got % 32 = rgb[3] \div 8

\* a colour pixel all of whose components lose low bits
C4_Witness ==
    /\ pc = "encoded"
    /\ ImgH = 2
    /\ img.px[<<0, 1>>] = <<131, 7, 252>>
    /\ Slot(0) = <<63, 128>>

\* C5: the k-th slot belongs to the pixel at column k div height and row
\* height - 1 - (k mod height); the 2x2 image is scanned in the order
\* (0,1), (0,0), (1,1), (1,0) and only scan positions 1 and 3 carry a colour
C5_ScanOrder ==
    /\ coords(2, 2) = << <<0, 1>>, <<0, 0>>, <<1, 1>>, <<1, 0>> >>
    /\ pc = "encoded" =>
        /\ \A k \in 0..(ImgW * ImgH - 1) :
              Slot(k) = IF (k + 1) % ImgH = 0 THEN <<0, 0>>
                        ELSE pixel_bytes(img.px[<<k \div ImgH,
                                                  ImgH - 1 - (k % ImgH)>>])
        /\ img = TestImage2x2 =>
              encoded = pixel_bytes(Blue) \o <<0, 0>> \o pixel_bytes(White) \o <<0, 0>>

\* the 2x2 test image, encoded
C5_Witness ==
    /\ pc = "encoded"
    /\ img = TestImage2x2
    /\ encoded = <<31, 0, 0, 0, 255, 255, 0, 0>>

\* C6 as claimed: with height >= 2 the one marker of a column takes the
\* slot of the first pixel scanned in the column (the bottom row), every
\* other pixel of the column keeps its colour
C6_MarkerAtFirstPixel ==
    pc = "encoded" /\ ImgH >= 2 =>
        \A x \in 0..(ImgW - 1) :
            /\ Slot(x * ImgH) = <<0, 0>>
            /\ \A j \in 1..(ImgH - 1) :
                  Slot(x * ImgH + j) = pixel_bytes(img.px[<<x, ImgH - 1 - j>>])

\* C6 as amended: the marker takes the slot of the last pixel scanned in
\* the column (the top row, y = 0); every other pixel keeps its colour
C6_MarkerAtLastPixel ==
    pc = "encoded" /\ ImgH >= 2 =>
        \A x \in 0..(ImgW - 1) :
            /\ Slot(x * ImgH + ImgH - 1) = <<0, 0>>
            /\ \A j \in 0..(ImgH - 2) :
                  Slot(x * ImgH + j) = pixel_bytes(img.px[<<x, ImgH - 1 - j>>])

\* columns of three pixels, none black: the top one is replaced
C6_Witness ==
    /\ pc = "encoded"
    /\ ImgH = 3 /\ ImgW = 2
    /\ img.px[<<0, 0>>] = Green /\ img.px[<<0, 2>>] = Red
    /\ Slot(0) = pixel_bytes(Red) /\ Slot(2) = <<0, 0>>

(***************************************************************************)
(* Properties of a session (Spec).                                         *)
(***************************************************************************)
\* C2: every frame packet handed to the transport write has chunk_size + 1
\* bytes and starts with 0x00, and in the last packet of a frame every byte
\* after the end of the payload is 0x00
C2_PacketsWritten ==
    written # NoPacket =>
        /\ Len(written.data) = chunk_size + 1
        /\ written.data[1] = 0
        /\ written.idx = written.of =>
              \A j \in 1..chunk_size :
                  (written.of - 1) * chunk_size + j > written.payload_len
                      => written.data[1 + j] = 0

\* the padded last packet of a frame of several packets, in a later frame
C2_Witness ==
    /\ written # NoPacket
    /\ written.frame >= 2
    /\ written.of >= 2
    /\ written.idx = written.of
    /\ written.payload_len < written.of * chunk_size
    /\ written.data[2] # 0

\* little-endian fields of a header, at 0-based offset off
Field16(h, off) == h[off + 1] + 256 * h[off + 2]
Field32(h, off) ==
    h[off + 1] + 256 * h[off + 2] + 65536 * h[off + 3] + 16777216 * h[off + 4]

\* the headers a session holds: self.header and the header of the frame
SessionHeaders ==
    (IF pc # "ctor" /\ IsHID(cls) THEN {header} ELSE {})
        \cup (IF frame_header # <<>> THEN {frame_header} ELSE {})

\* C7 as claimed: get_header returns 8 bytes in the simple layout and 20
\* bytes (the magic DA DB DC DD and a 16-byte body) in the extended one
C7_HeaderLength8Or20 ==
    \A h \in SessionHeaders :
        IF Layout(cls) = "simple" THEN Len(h) = 8
        ELSE Len(h) = 20 /\ SubSeq(h, 1, 4) = <<218, 219, 220, 221>>

\* C7 as amended: 8 bytes in the simple layout and 22 bytes (the magic
\* DA DB DC DD and an 18-byte body) in the extended one
C7_HeaderLength8Or22 ==
    \A h \in SessionHeaders :
        IF Layout(cls) = "simple" THEN Len(h) = 8
        ELSE Len(h) = 22 /\ SubSeq(h, 1, 4) = <<218, 219, 220, 221>>

\* a frame header of the extended layout, and of the simple one
C7_Witness ==
    /\ pc = "write"
    /\ Layout(cls) = "extended"
    /\ frame_header = header
    /\ Len(frame_header) = 22

\* C8: the width and height fields of the header equal the width and
\* height the class hands to the session constructor, to which every
\* generator is forced, and the byteCount field of the extended layout is
\* 2 * width * height
C8_HeaderGeometry ==
    /\ pc # "ctor" =>
          width = ctor_args(cls).width /\ height = ctor_args(cls).height
    /\ generator # None =>
          generator.output_width = width /\ generator.output_height = height
    /\ \A h \in SessionHeaders :
          IF Layout(cls) = "simple"
          THEN Field16(h, 2) = width /\ Field16(h, 4) = height
          ELSE /\ Field16(h, 8) = width /\ Field16(h, 10) = height
               /\ Field32(h, 16) = 2 * width * height

\* a frame of the class whose width and height differ
C8_Witness ==
    /\ pc = "write"
    /\ cls = "DisplayDevice04165302"
    /\ generator # None
    /\ Field16(frame_header, 8) = 320 /\ Field16(frame_header, 10) = 240
    /\ Field32(frame_header, 16) = 153600

\* C9: a class's header is the same at construction and for every frame,
\* whatever was sent before, and two classes of the same geometry have
\* different headers exactly when their layouts differ
C9_HeaderStatic ==
    /\ frame_header # <<>> =>
          /\ frame_header = get_header([Self EXCEPT !.frames = 0])
          /\ IsHID(cls) => frame_header = header
    /\ \A c \in Classes :
          c # cls /\ ctor_args(c).width = ctor_args(cls).width
                  /\ ctor_args(c).height = ctor_args(cls).height
              => LET other == get_header([cls |-> c, width |-> ctor_args(c).width,
                                          height |-> ctor_args(c).height,
                                          frames |-> frames])
                     mine == get_header([cls |-> cls,
                                         width |-> ctor_args(cls).width,
                                         height |-> ctor_args(cls).height,
                                         frames |-> frames])
                 IN  (other # mine) <=> (Layout(c) # Layout(cls))

\* the second frame of a session of a class that shares its geometry with
\* a class of the same layout and with one of the other layout
C9_Witness ==
    /\ pc = "write"
    /\ frames >= 1
    /\ cls = "ChiZhuDisplay"
    /\ frame_header = <<105, 136, 224, 1, 224, 1, 0, 0>>

\* C10: when the file's modification time has not advanced since the last
\* build, a pull builds nothing and returns the generator of the pull
\* before it; when it has advanced, the pull makes exactly one build
C10_RebuildOnlyOnChange ==
    pc = "gg_return" =>
        /\ pull.advanced => builds - pull.builds0 = 1
        /\ ~pull.advanced /\ mtime = pull.mtime0 =>
              /\ builds = pull.builds0
              /\ pull.n > 1 => generator = pull.prev

(***************************************************************************)
(* Properties of hot reload and of failures in the streaming loop.         *)
(***************************************************************************)
\* C11 as stated: whenever a pull has returned a frame, the generator that
\* produced it was built from a version of the configuration file no older
\* than the one on disk at that pull's staleness check, whatever writes
\* (replacements with an equal or older modification time included) came
\* between
C11_GeneratorFromDiskVersion ==
    pull.done => generator.config >= pull.version0

\* C11, amended: the same, for every sequence of writes each of which
\* advances the file's modification time; a write between the two stat
\* calls of a pull or between the stat and the load is included
C11_GeneratorFromDiskVersionWhenMtimeAdvances ==
    (pull.done /\ ~replaced) => generator.config >= pull.version0

\* a reload during which a write landed after the staleness check: the
\* generator is built from a version later than the one the check saw
C11_Witness ==
    /\ pull.done /\ ~replaced
    /\ generator.origin = "reload"
    /\ pull.n > 1
    /\ generator.config > pull.version0

\* C12: once a build inside _get_generator has raised, run() is over: the
\* pull that asked for the build returns no frame, no frame is encoded, no
\* packet is written and no further iteration starts
C12_RebuildFailurePropagates ==
    fail.kind = "build" =>
        /\ pc \in {"raised", "exited"}
        /\ ~pull.done
        /\ pull.n = fail.pulls
        /\ img = fail.img
        /\ written = fail.last
        /\ frames = fail.frames

\* the rebuild after a detected change fails while a generator that has
\* already produced written frames is in use
C12_Witness ==
    /\ fail.kind = "build"
    /\ pc = "exited"
    /\ generator # None
    /\ generator.config < fversion
    /\ fail.frames >= 1
    /\ written # NoPacket

(***************************************************************************)
(* Properties of the initialization sequence and of the USB claim.         *)
(***************************************************************************)
\* C13: a raw-bulk session writes the 91-byte blob and then the 27-byte
\* blob, each once, before its first frame packet and never again; an HID
\* session writes no blob; the length assertions of send_init_sequence
\* never fail
C13_InitSequenceOnce ==
    /\ fail.kind # "assert"
    /\ IsHID(cls) => init_sent = <<>>
    /\ Len(init_sent) <= 2
    /\ Len(init_sent) >= 1 => Len(init_sent[1]) = 91 /\ init_sent[1][4] = 208
    /\ Len(init_sent) = 2 => Len(init_sent[2]) = 27 /\ init_sent[2][4] = 144
    /\ (~IsHID(cls) /\ (written # NoPacket \/ pc \in {"write", "sleep"}))
          => Len(init_sent) = 2

\* a raw-bulk session that is writing its second frame
C13_Witness ==
    /\ ~IsHID(cls)
    /\ written.frame = 2
    /\ Len(init_sent) = 2

\* C14: once the write of packet k of a frame has raised, run() is over:
\* the last packet written stays packet k-1 of that frame (or the last one
\* of the frame before, when k = 1), so packets k.. are never written and
\* no later frame is; the sleep of that frame does not happen
C14_WriteFailureAborts ==
    fail.kind = "write" =>
        /\ pc \in {"raised", "exited"}
        /\ written = fail.last
        /\ pkt_idx = fail.idx
        /\ frames = fail.frames
        /\ pull.n = fail.pulls
        /\ fail.idx > 1 => /\ written.frame = frames + 1
                           /\ written.idx = fail.idx - 1
        /\ fail.idx = 1 => written.frame <= frames

\* the second of at least three packets of a frame fails
C14_Witness ==
    /\ fail.kind = "write"
    /\ pc = "exited"
    /\ fail.idx = 2
    /\ Len(frame_packets) >= 3
    /\ written.idx = 1

\* C15: in every step of the loop, a packet is written only for the frame
\* whose pull has returned, as the packet after the last one written of
\* that frame (the first, if none was); the sleep of a frame starts only
\* when its last packet was written; the next pull, staleness check
\* included, starts only after that sleep
C15_LoopOrder ==
    [][ /\ written' # written =>
              /\ pull.done /\ pull.n = frames + 1
              /\ written'.frame = frames + 1
              /\ written'.idx = IF written.frame = frames + 1
                                THEN written.idx + 1 ELSE 1
              /\ written'.data = frame_packets[written'.idx]
        /\ frames' # frames =>
              /\ frames' = frames + 1
              /\ written.frame = frames + 1
              /\ written.idx = Len(frame_packets)
        /\ pull'.n # pull.n =>
              /\ pull'.n = pull.n + 1
              /\ frames = pull.n
              /\ ~pull'.done
        /\ pull'.done # pull.done =>
              pull'.n = frames + 1 ]_vars

\* the second frame of a session, its second packet just written
C15_Witness ==
    /\ frames = 1
    /\ pull.n = 2
    /\ written.frame = 2
    /\ written.idx = 2
    /\ written.of >= 3

\* C16: when the loop of a raw-bulk session has ended with an error, or its
\* construction has failed, the interface the session claimed is released
\* and nothing is written afterwards
C16_ClosedReleasesInterface ==
    (~IsHID(cls) /\ pc \in {"raised", "exited"}) =>
        /\ ~claimed
        /\ written = fail.last
        /\ init_sent = fail.inits

\* C17: in a raw-bulk session the interface is claimed only with no kernel
\* driver bound to it, a blob or a packet is written only with the
\* interface claimed, and a session whose device is absent has failed with
\* nothing detached, claimed or written
C17_DetachClaimWrite ==
    ~IsHID(cls) =>
        /\ claimed => kernel_driver # "bound"
        /\ (init_sent # <<>> \/ written # NoPacket) => claimed
        /\ pc \in {"init1", "init2", "write", "sleep"} => claimed
        /\ fail.kind = "notfound" =>
              /\ ~claimed
              /\ kernel_driver # "detached"
              /\ init_sent = <<>>
              /\ written = NoPacket
              /\ builds = 0

\* a session that found a kernel driver bound, detached it, claimed the
\* interface and has written blobs and a packet
C17_Witness ==
    /\ ~IsHID(cls)
    /\ kernel_driver = "detached"
    /\ claimed
    /\ Len(init_sent) = 2
    /\ written # NoPacket

(***************************************************************************)
(* Properties of device detection.                                         *)
(***************************************************************************)
\* the classes load_device constructs for an HID-enumerated device
HidClasses == {c \in Classes : IsHID(c)}

\* the positions of the enumeration that hold a supported HID panel
Supported(devices) ==
    {i \in 1..Len(devices) :
        \E c \in HidClasses : devices[i] = <<ctor_args(c).vid, ctor_args(c).pid>>}

\* C18: load_device constructs the class of the first HID-enumerated
\* device that is one of 0416:5302, 0416:8001, 0418:5303, 0418:5304; it
\* constructs ChiZhuDisplay only when no enumerated device is one of these
\* and USB device 87ad:70db is found; otherwise it raises
C18_LoadDeviceResolution ==
    pc # "load" =>
        LET hits == Supported(hid_devices)
        IN  IF hits # {}
            THEN LET first == CHOOSE i \in hits : \A j \in hits : i <= j
                 IN  /\ pc = "ctor"
                     /\ cls \in HidClasses
                     /\ hid_devices[first] = <<ctor_args(cls).vid, ctor_args(cls).pid>>
            ELSE IF usb_present
            THEN pc = "ctor" /\ cls = "ChiZhuDisplay"
            ELSE pc = "raised" /\ cls = "none" /\ fail.kind = "nodevice"

\* a supported vendor with an unknown product id is listed before a
\* supported panel, and the USB-only panel is present as well
C18_Witness ==
    /\ pc = "ctor"
    /\ hid_devices = <<<<1046, 21251>>, <<1048, 21252>>>>
    /\ usb_present
    /\ cls = "DisplayDevice04185304"

(***************************************************************************)
(* Properties of the geometry of frames and generators.                    *)
(***************************************************************************)
\* C19: a frame whose image has not the width and height of the session's
\* class is never written: the loop ends with an error instead, so every
\* packet written belongs to a payload of the header followed by
\* 2 * width * height bytes
C19_GeometryMismatchFatal ==
    /\ (pc \in {"write", "sleep"} /\ img.size # <<width, height>>) =>
          fail.kind = "geometry"
    /\ written # NoPacket =>
          written.payload_len = Len(frame_header) + 2 * width * height

\* C20: the generator a pull returns, whether built by the constructor,
\* lazily on the first pull or by a reload, carries the width and height
\* of the session's class as its output geometry, whatever geometry the
\* configuration file it was loaded from held
C20_GeneratorGeometryForced ==
    (pc = "gg_return" \/ pull.done) =>
        /\ generator # None
        /\ generator.origin \in {"init", "lazy", "reload"}
        /\ IsHID(cls) => generator.origin # "init"
        /\ generator.output_width = ctor_args(cls).width
        /\ generator.output_height = ctor_args(cls).height

\* a frame pulled from a generator that a reload built from a file whose
\* geometry is not the one of the session's class
C20_Witness ==
    /\ pull.done
    /\ generator.origin = "reload"
    /\ generator.file_width # width
    /\ generator.file_height # height
    /\ generator.output_width = 480

run_display_names ==
    {"sys", "logging", "argparse", "Path", "load_device", "ChiZhuDisplay",
     "main"}

\* what get_frame_with_duration() returns: an image and a delay
Delays == {1, 2, 3}
GenFrames == [img : GenImages, delay : Delays]
FrameLists == UNION {[1..n -> GenFrames] : n \in 0..MaxFrames}

WriteOp(packet) == [op |-> "write", data |-> packet, delay |-> 0]
SleepOp(delay) == [op |-> "sleep", data |-> <<>>, delay |-> delay]

\* device.get_header() + device._encode_image(img), cut by
\* device._prepare_frame_packets, for the ChiZhuDisplay
chizhu_packets(image) ==
    LET c == ctor_args("ChiZhuDisplay")
        self == [cls |-> "ChiZhuDisplay", width |-> c.width,
                 height |-> c.height, frames |-> 0]
    IN  _prepare_frame_packets(get_header(self) \o GenEncoded[image],
                               c.chunk_size)

\* for packet in frame_packets: self.dev.write(self.endpoint_out, packet)
write_ops(packets) == [k \in 1..Len(packets) |-> WriteOp(packets[k])]

\* USBDisplayDevice.run from the i-th frame on
RECURSIVE run_loop(_, _)
run_loop(fs, i) ==
    IF i > Len(fs) THEN <<>>
    ELSE write_ops(chizhu_packets(fs[i].img))
            \o <<SleepOp(fs[i].delay)>> \o run_loop(fs, i + 1)

\* verbose_run from the i-th frame on: the two continue statements, the
\* writes, and time.sleep(delay_time), whose name time is looked up in the
\* module: a name that is not bound raises NameError, which ends the loop
RECURSIVE verbose_run_loop(_, _)
verbose_run_loop(fs, i) ==
    IF i > Len(fs) THEN <<>>
    ELSE IF fs[i].img = NoImage THEN verbose_run_loop(fs, i + 1)
    ELSE LET frame_pkts == chizhu_packets(fs[i].img)
         IN  IF frame_pkts = <<>> THEN verbose_run_loop(fs, i + 1)
             ELSE write_ops(frame_pkts)
                     \o (IF "time" \in run_display_names
                         THEN <<SleepOp(fs[i].delay)>>
                                 \o verbose_run_loop(fs, i + 1)
                         ELSE <<>>)

InitLoops ==
    /\ pc = "loops"
    /\ gen_frames \in FrameLists
    /\ run_ops = <<>>
    /\ debug_ops = <<>>
    /\ chunk_size = 0 /\ img = NoImage /\ img_bytes = <<>>
    /\ frame_packets = <<>> /\ encoded = <<>>
    /\ SessionIdle
    /\ UrbIdle
    /\ SourcesIdle
    /\ WinIdle

\* device.run() without --debug
Run ==
    /\ pc = "loops"
    /\ run_ops' = run_loop(gen_frames, 1)
    /\ pc' = "loops_debug"
    /\ UNCHANGED <<sessionVars, urbVars, gen_frames, debug_ops, sourceVars, winVars>>

\* device.run() with --debug: device.run = verbose_run
VerboseRun ==
    /\ pc = "loops_debug"
    /\ debug_ops' = verbose_run_loop(gen_frames, 1)
    /\ pc' = "looped"
    /\ UNCHANGED <<sessionVars, urbVars, gen_frames, run_ops, sourceVars, winVars>>

SpecLoops == InitLoops /\ [][Run \/ VerboseRun]_vars

\* C22: for every sequence of frames the generator returns, the writes and
\* sleeps of the debug loop are those of USBDisplayDevice.run
C22_DebugLoopEquivalent ==
    pc = "looped" => debug_ops = run_ops

(***************************************************************************)
(* Properties of the frame source across failures and across classes.      *)
(***************************************************************************)
\* C23: when the build inside _get_generator has raised, the generator in
\* use and last_modified are what they were when _get_generator was
\* called, so that the file, if it is still as the call found it, is still
\* seen as changed
C23_FailedRebuildLeavesState ==
    fail.kind = "build" =>
        /\ generator = pull.gen0
        /\ last_modified = pull.last0
        /\ (generator # None /\ mtime = pull.mtime0)
              => is_stale(mtime, last_modified)

(***************************************************************************)
(* The frame source of a DisplayDevice and the one of a USBDisplayDevice,  *)
(* driven by the same events: construction, then modifications of the      *)
(* configuration file and pulls in any order.  A generator is named by the *)
(* number of events that preceded its build.                               *)
(***************************************************************************)
NoGenerator == 0

\* DisplayDevice.__init__: the stat, then a build whose result is dropped
hid_init(stat, at) ==
    [generator |-> NoGenerator, last_modified |-> stat, builds |-> 1]

\* USBDisplayDevice.__init__: the stat, then
\* self._generator = self._build_generator()
usb_init(stat, at) ==
    [generator |-> at, last_modified |-> stat, builds |-> 1]

\* _get_generator of either class, with the file's st_mtime_ns at the call
get_generator(src, stat, at) ==
    IF src.generator = NoGenerator
    THEN [src EXCEPT !.generator = at, !.builds = @ + 1]
    ELSE IF is_stale(stat, src.last_modified)
    THEN [generator |-> at, last_modified |-> stat, builds |-> src.builds + 1]
    ELSE src

InitSources ==
    /\ pc = "sources_ctor"
    /\ file_stat \in 1..2
    /\ hid_source = <<>>
    /\ usb_source = <<>>
    /\ events = <<>>
    /\ chunk_size = 0 /\ img = NoImage /\ img_bytes = <<>>
    /\ frame_packets = <<>> /\ encoded = <<>>
    /\ SessionIdle
    /\ UrbIdle
    /\ LoopsIdle
    /\ WinIdle

\* both sessions are constructed
SourcesConstruct ==
    /\ pc = "sources_ctor"
    /\ events' = Append(events, "construct")
    /\ hid_source' = hid_init(file_stat, Len(events) + 1)
    /\ usb_source' = usb_init(file_stat, Len(events) + 1)
    /\ pc' = "sources"
    /\ UNCHANGED <<sessionVars, urbVars, loopVars, winVars, file_stat>>

\* the configuration file is modified
SourcesModify ==
    /\ pc = "sources"
    /\ Len(events) < MaxEvents
    /\ events' = Append(events, "modify")
    /\ file_stat' = file_stat + 1
    /\ UNCHANGED <<pc, sessionVars, urbVars, loopVars, winVars, hid_source,
                   usb_source>>

\* both loops pull a frame: self._get_generator()
SourcesPull ==
    /\ pc = "sources"
    /\ Len(events) < MaxEvents
    /\ events' = Append(events, "pull")
    /\ hid_source' = get_generator(hid_source, file_stat, Len(events) + 1)
    /\ usb_source' = get_generator(usb_source, file_stat, Len(events) + 1)
    /\ UNCHANGED <<pc, sessionVars, urbVars, loopVars, winVars, file_stat>>

SpecSources ==
    InitSources /\ [][SourcesConstruct \/ SourcesModify \/ SourcesPull]_vars

\* C24: driven by the same events, the two frame sources have made the
\* same number of builds, and after a pull they hold a generator built at
\* the same point of the sequence
C24_FrameSourcesEquivalent ==
    pc = "sources" =>
        /\ hid_source.builds = usb_source.builds
        /\ events[Len(events)] = "pull" =>
              hid_source.generator = usb_source.generator

(***************************************************************************)
(* WinUsbDevice.run for one file: the header by control transfer, then the *)
(* frame in packets.                                                       *)
(***************************************************************************)
\* mutant of win_packet: the last packet is left short
win_packet_unpadded(chunk, report_id, packet_size) == <<report_id>> \o chunk

\* packet = bytes([report_id]) + chunk
\* packet += b'\x00' * (packet_size - len(packet))
win_packet(chunk, report_id, packet_size) ==
    LET packet == <<report_id>> \o chunk
    IN  packet \o Zeros(packet_size - Len(packet))

\* at most n iterations of the while loop of send_frame from an offset on:
\* the packets written and the offset reached.  The iterations are taken in
\* two halves, the second from the offset the first one reached
RECURSIVE send_frame_from(_, _, _, _, _)
send_frame_from(jpeg_data, report_id, packet_size, offset, n) ==
    IF n = 0 \/ ~(offset < Len(jpeg_data))
    THEN [packets |-> <<>>, offset |-> offset]
    ELSE IF n = 1
    THEN LET chunk == Slice(jpeg_data, offset, offset + packet_size - 1)
         IN  [packets |-> <<win_packet(chunk, report_id, packet_size)>>,
              offset |-> offset + Len(chunk)]
    ELSE LET first == send_frame_from(jpeg_data, report_id, packet_size,
                                      offset, n \div 2)
             rest == send_frame_from(jpeg_data, report_id, packet_size,
                                     first.offset, n - n \div 2)
         IN  [packets |-> first.packets \o rest.packets,
              offset |-> rest.offset]

\* send_frame: offset = 0, then the loop while offset < len(jpeg_data).  A
\* packet of packet_size >= 2 takes at least one byte, so the loop is over
\* after len(jpeg_data) iterations at the latest
send_frame(jpeg_data, report_id, packet_size) ==
    send_frame_from(jpeg_data, report_id, packet_size, 0,
                    Len(jpeg_data)).packets

\* hdr = bytes([report_id, len(data) & 0xFF, (len(data) >> 8) & 0xFF])
win_hdr(report_id, data) ==
    <<report_id, BitAnd(Len(data), 255), BitAnd(Shr(Len(data), 8), 255)>>

\* send_header: the vendor-class request, or HID Set_Report when that one
\* raises USBError
send_header(hdr_bytes, vendor_ok) ==
    [via |-> IF vendor_ok THEN "vendor" ELSE "class",
     bRequest |-> IF vendor_ok THEN 1 ELSE 9,
     wValue |-> BitOr(Shl(2, 8), hdr_bytes[1]),
     data |-> hdr_bytes]

\* files of 255 bytes to 64 KiB and one byte, as f.read() returns them
LongLens == {255, 256, 65535, 65536, 65537}
LongData(n) == [i \in 1..n |-> (7 * i) % 256]

\* the data of a file and the endpoint's wMaxPacketSize: short data with
\* small packets, long data with packets of 512 bytes
WinInputs ==
    (Payloads \X (2..(MaxChunk + 1)))
       \cup ({LongData(n) : n \in LongLens} \X {512})

InitWinUsb ==
    /\ pc = "win_header"
    /\ \E input \in WinInputs :
          win_data = input[1] /\ win_packet_size = input[2]
    /\ win_vendor_ok \in BOOLEAN
    /\ win_header = NoTransfer
    /\ win_packets = <<>>
    /\ chunk_size = 0 /\ img = NoImage /\ img_bytes = <<>>
    /\ frame_packets = <<>> /\ encoded = <<>>
    /\ SessionIdle
    /\ UrbIdle
    /\ LoopsIdle
    /\ SourcesIdle

\* report_id = 1; hdr = ...; self.send_header(hdr)
WinSendHeader ==
    /\ pc = "win_header"
    /\ win_header' = send_header(win_hdr(1, win_data), win_vendor_ok)
    /\ pc' = "win_frame"
    /\ UNCHANGED <<sessionVars, urbVars, loopVars, sourceVars, win_data,
                   win_packet_size, win_vendor_ok, win_packets>>

\* self.send_frame(data, report_id, self.ep_out.wMaxPacketSize)
WinSendFrame ==
    /\ pc = "win_frame"
    /\ win_packets' = send_frame(win_data, 1, win_packet_size)
    /\ pc' = "win_done"
    /\ UNCHANGED <<sessionVars, urbVars, loopVars, sourceVars, win_data,
                   win_packet_size, win_vendor_ok, win_header>>

SpecWinUsb == InitWinUsb /\ [][WinSendHeader \/ WinSendFrame]_vars

\* C25: for every data and packet_size >= 2, send_frame writes
\* ceil(len(data) / (packet_size - 1)) packets of packet_size bytes each,
\* byte 0 the report id, then the bytes of data in order, then zeros;
\* nothing for empty data
C25_SendFramePackets ==
    (pc = "win_done" /\ win_packet_size >= 2) =>
        LET c == win_packet_size - 1
            L == Len(win_data)
        IN  /\ Len(win_packets) = CeilDiv(L, c)
            /\ L = 0 => win_packets = <<>>
            /\ \A k \in 1..Len(win_packets) :
                  /\ Len(win_packets[k]) = win_packet_size
                  /\ win_packets[k][1] = 1
                  /\ \A j \in 1..c :
                        win_packets[k][j + 1] =
                           IF (k - 1) * c + j <= L
                           THEN win_data[(k - 1) * c + j] ELSE 0

\* four bytes in packets of four: the second packet carries one byte of
\* data and two of padding
C25_Witness ==
    /\ pc = "win_done"
    /\ win_data = <<255, 1, 0, 255>>
    /\ win_packet_size = 4
    /\ win_packets = <<<<1, 255, 1, 0>>, <<1, 255, 0, 0>>>>

\* C26: the header sent before a frame is (report_id, L mod 256,
\* L div 256) with L the number of data bytes send_frame then sends: the
\* length the header announces is the length of the data
C26_HeaderAnnouncesLength ==
    pc \in {"win_frame", "win_done"} =>
        LET L == Len(win_data)
        IN  /\ win_header.data = <<1, L % 256, L \div 256>>
            /\ win_header.data[2] + 256 * win_header.data[3] = L

(***************************************************************************)
(* theme_color_v41.send: the submitting thread and the completion          *)
(* callbacks of its URBs.  sent_urb_count -= 1 is a load followed by a     *)
(* store; another thread may run between the two.                          *)
(***************************************************************************)
\* EP_OUT.wMaxPacketSize, in bytes of the model's data
WMaxPacketSize == 2

\* chunks = [data[i:i + max_packet_size]
\*           for i in range(0, len(data), max_packet_size)]: their number
chunk_count(data_len, max_packet_size) ==
    Len(Range(0, data_len, max_packet_size))

Urbs == 1..Len(urb_state)

InitUrb ==
    /\ pc = "send"
    /\ urb_len \in 0..MaxData
    /\ urb_count = 0
    /\ urb_event \in BOOLEAN
    /\ urb_i = 0
    /\ urb_state = <<>>
    /\ urb_tmp = <<>>
    /\ urb_main_tmp = 0
    /\ chunk_size = 0 /\ img = NoImage /\ img_bytes = <<>>
    /\ frame_packets = <<>> /\ encoded = <<>>
    /\ SessionIdle
    /\ LoopsIdle
    /\ SourcesIdle
    /\ WinIdle

\* send, lines 106-110: the chunks, sent_urb_count = len(chunks),
\* transfer_complete_event.clear()
UrbSendStart ==
    /\ pc = "send"
    /\ urb_state' = [k \in 1..chunk_count(urb_len, WMaxPacketSize) |-> "new"]
    /\ urb_tmp' = [k \in 1..chunk_count(urb_len, WMaxPacketSize) |-> 0]
    /\ urb_count' = chunk_count(urb_len, WMaxPacketSize)
    /\ urb_event' = FALSE
    /\ urb_i' = 1
    /\ pc' = "submit"
    /\ UNCHANGED <<sessionVars, loopVars, sourceVars, winVars, urb_len,
                   urb_main_tmp>>

\* urb.submit() succeeds
UrbSubmit ==
    /\ pc = "submit"
    /\ urb_i <= Len(urb_state)
    /\ urb_state' = [urb_state EXCEPT ![urb_i] = "submitted"]
    /\ urb_i' = urb_i + 1
    /\ UNCHANGED <<pc, sessionVars, loopVars, sourceVars, winVars, urb_len,
                   urb_count, urb_event, urb_tmp, urb_main_tmp>>

\* urb.submit() raises USBError: the except clause loads sent_urb_count
UrbSubmitFail ==
    /\ pc = "submit"
    /\ urb_i <= Len(urb_state)
    /\ urb_state' = [urb_state EXCEPT ![urb_i] = "failed"]
    /\ urb_main_tmp' = urb_count
    /\ pc' = "fail_store"
    /\ UNCHANGED <<sessionVars, loopVars, sourceVars, winVars, urb_len,
                   urb_count, urb_event, urb_i, urb_tmp>>

\* the except clause stores sent_urb_count - 1; the loop goes on
UrbFailStore ==
    /\ pc = "fail_store"
    /\ urb_count' = urb_main_tmp - 1
    /\ urb_i' = urb_i + 1
    /\ pc' = "submit"
    /\ UNCHANGED <<sessionVars, loopVars, sourceVars, winVars, urb_len,
                   urb_event, urb_state, urb_tmp, urb_main_tmp>>

\* the for loop is over: transfer_complete_event.wait() is called
UrbWait ==
    /\ pc = "submit"
    /\ urb_i > Len(urb_state)
    /\ pc' = "wait"
    /\ UNCHANGED <<sessionVars, harnessVars>>

\* transfer_complete_event.wait() returns, and send after it
UrbWaitReturn ==
    /\ pc = "wait"
    /\ urb_event
    /\ pc' = "returned"
    /\ UNCHANGED <<sessionVars, harnessVars>>

\* a submitted URB completes: urb_callback loads sent_urb_count
UrbCallbackLoad(k) ==
    /\ urb_state[k] = "submitted"
    /\ urb_tmp' = [urb_tmp EXCEPT ![k] = urb_count]
    /\ urb_state' = [urb_state EXCEPT ![k] = "loaded"]
    /\ UNCHANGED <<pc, sessionVars, loopVars, sourceVars, winVars, urb_len,
                   urb_count, urb_event, urb_i, urb_main_tmp>>

\* urb_callback stores sent_urb_count - 1
UrbCallbackStore(k) ==
    /\ urb_state[k] = "loaded"
    /\ urb_count' = urb_tmp[k] - 1
    /\ urb_state' = [urb_state EXCEPT ![k] = "stored"]
    /\ UNCHANGED <<pc, sessionVars, loopVars, sourceVars, winVars, urb_len,
                   urb_event, urb_i, urb_tmp, urb_main_tmp>>

\* if sent_urb_count == 0: transfer_complete_event.set()
UrbCallbackTest(k) ==
    /\ urb_state[k] = "stored"
    /\ urb_event' = (urb_event \/ urb_count = 0)
    /\ urb_state' = [urb_state EXCEPT ![k] = "done"]
    /\ UNCHANGED <<pc, sessionVars, loopVars, sourceVars, winVars, urb_len,
                   urb_count, urb_i, urb_tmp, urb_main_tmp>>

UrbCallback ==
    \E k \in Urbs :
        UrbCallbackLoad(k) \/ UrbCallbackStore(k) \/ UrbCallbackTest(k)

NextUrb ==
    \/ UrbSendStart
    \/ UrbSubmit
    \/ UrbSubmitFail
    \/ UrbFailStore
    \/ UrbWait
    \/ UrbWaitReturn
    \/ UrbCallback

\* the submitting thread runs on, and every submitted URB completes and
\* its callback runs to its end
SpecUrb ==
    /\ InitUrb
    /\ [][NextUrb]_vars
    /\ WF_vars(UrbSendStart \/ UrbSubmit \/ UrbFailStore \/ UrbWait
                  \/ UrbWaitReturn)
    /\ WF_vars(UrbCallback)

\* C27: send never blocks forever: it is never waiting on
\* transfer_complete_event with the event clear and no URB left whose
\* callback could set it
C27_SendNeverBlocked ==
    ~ /\ pc = "wait"
      /\ ~urb_event
      /\ \A k \in Urbs : urb_state[k] \in {"failed", "done"}

====
